---- MODULE Spec2Model ----
(***************************************************************************)
(* Model of Code/extract_tables.py and Code/extract_fields.py.             *)
(*                                                                         *)
(* A text is a sequence of one-character strings.  A worksheet is a        *)
(* sequence of physical rows, a row a sequence of cells, a cell a text;    *)
(* the empty text is a blank cell, which pandas reads as NaN.  Cells hold  *)
(* text or nothing: numeric and date cells are outside the model.          *)
(***************************************************************************)
EXTENDS Integers, Sequences, FiniteSets, TLC

(* ------------------------------ bounds --------------------------------- *)
\* longest run of data rows enumerated below the header of the entity sheet
MaxRows == 2
\* longest run of data rows enumerated below the header of the Metadata sheet
MaxFieldRows == 2

(* ------------------------- program constants --------------------------- *)
TablesDisplayWidth == 35
TablesSchemaWidth == 40
TablesRuleWidth == 80
FieldsDisplayWidth == 50
FieldsSchemaWidth == 45
FieldsRuleWidth == 100

(* ------------------------------- texts --------------------------------- *)
NaN == <<>>
NL == "\n"

UpperChars == <<"A","B","C","D","E","F","G","H","I","J","K","L","M",
                "N","O","P","Q","R","S","T","U","V","W","X","Y","Z">>
LowerChars == <<"a","b","c","d","e","f","g","h","i","j","k","l","m",
                "n","o","p","q","r","s","t","u","v","w","x","y","z">>

\* str.lower() on one character
LowerChar(c) ==
  IF \E k \in 1..Len(UpperChars) : UpperChars[k] = c
  THEN LowerChars[CHOOSE k \in 1..Len(UpperChars) : UpperChars[k] = c]
  ELSE c

\* str.lower()
Lower(s) == [k \in 1..Len(s) |-> LowerChar(s[k])]

\* c * n
Rep(c, n) == [k \in 1..n |-> c]

Digits == <<"0","1","2","3","4","5","6","7","8","9">>

RECURSIVE Str(_)
\* str(n) for a natural number, as an f-string renders it
Str(n) == IF n < 10 THEN <<Digits[n + 1]>>
          ELSE Str(n \div 10) \o <<Digits[(n % 10) + 1]>>

\* format(s, "<w"): pad on the right up to a minimum width of w
PadLeftAlign(s, w) == IF Len(s) >= w THEN s ELSE s \o Rep(" ", w - Len(s))

(* ---------------------------- text literals ---------------------------- *)
L_Entity == <<"E","n","t","i","t","y">>
L_SchemaName == <<"S","c","h","e","m","a"," ","N","a","m","e">>
L_EntityLogicalName ==
  <<"E","n","t","i","t","y"," ","L","o","g","i","c","a","l"," ","N","a","m","e">>
L_DisplayName == <<"D","i","s","p","l","a","y"," ","N","a","m","e">>
L_Unnamed == <<"U","n","n","a","m","e","d",":"," ">>

(* ------------------------- pandas data frames -------------------------- *)
\* A data frame: column labels, the dtype inferred for each column, and the
\* rows, each carrying its index label i and its cells c.
Raise(exc) == [ok |-> FALSE, exc |-> exc]

\* dtype inference of the reader for column j: a column holding some text is
\* object, a column of blanks only is float64, a column of no rows is object
InferDtype(body, j) ==
  IF body = <<>> \/ \E k \in 1..Len(body) : body[k][j] # NaN
  THEN "object" ELSE "float64"

\* header labels as the reader returns them: a blank label is named by its
\* position, a repeated label gets a numbered suffix
MangleLabel(header, j) ==
  LET earlier == Cardinality({k \in 1..(j - 1) : header[k] = header[j]})
  IN  IF header[j] = NaN THEN L_Unnamed \o Str(j - 1)
      ELSE IF earlier > 0 THEN header[j] \o <<".">> \o Str(earlier)
      ELSE header[j]

\* pd.read_excel(file, sheet_name=..., skiprows=n): the first n physical rows
\* are skipped, the next one is the header, the others are the data
ReadExcel(sheet, skiprows) ==
  LET rest == SubSeq(sheet, skiprows + 1, Len(sheet))
  IN  IF rest = <<>>
      THEN [ok |-> TRUE, columns |-> <<>>, dtypes |-> <<>>, rows |-> <<>>]
      ELSE LET header == Head(rest)
               body   == Tail(rest)
           IN  [ok      |-> TRUE,
                columns |-> [j \in 1..Len(header) |-> MangleLabel(header, j)],
                dtypes  |-> [j \in 1..Len(header) |-> InferDtype(body, j)],
                rows    |-> [k \in 1..Len(body) |-> [i |-> k - 1, c |-> body[k]]]]

\* df.columns = df.iloc[0]; df = df[1:].reset_index(drop=True)
PromoteHeader(df) ==
  IF df.rows = <<>> THEN Raise("IndexError")
  ELSE [ok      |-> TRUE,
        columns |-> df.rows[1].c,
        dtypes  |-> df.dtypes,
        rows    |-> [k \in 1..(Len(df.rows) - 1) |->
                       [i |-> k - 1, c |-> df.rows[k + 1].c]]]

HasColumn(df, label) == \E j \in 1..Len(df.columns) : df.columns[j] = label

\* position of the column a label names (the sheets of the model never
\* repeat a label that is looked up)
ColumnOf(df, label) ==
  CHOOSE j \in 1..Len(df.columns) :
    /\ df.columns[j] = label
    /\ \A k \in 1..(j - 1) : df.columns[k] # label

\* df[[labels]]
SelectColumns(df, labels) ==
  IF \E n \in 1..Len(labels) : ~HasColumn(df, labels[n]) THEN Raise("KeyError")
  ELSE [ok      |-> TRUE,
        columns |-> labels,
        dtypes  |-> [n \in 1..Len(labels) |-> df.dtypes[ColumnOf(df, labels[n])]],
        rows    |-> [k \in 1..Len(df.rows) |->
                       [i |-> df.rows[k].i,
                        c |-> [n \in 1..Len(labels) |->
                                 df.rows[k].c[ColumnOf(df, labels[n])]]]]]

\* a row keeps its place when no cell of it is missing
NotNa(row) == \A j \in 1..Len(row.c) : row.c[j] # NaN

\* dropna(how='all'): a row goes only when all of its cells are missing
DropNaAll(df) ==
  LET SomeCell(row) == \E j \in 1..Len(row.c) : row.c[j] # NaN
  IN  [df EXCEPT !.rows = SelectSeq(df.rows, SomeCell)]

\* df.dropna(): rows without a missing cell, index labels kept
DropNa(df) == [df EXCEPT !.rows = SelectSeq(df.rows, NotNa)]

\* row[label] inside iterrows()
Cell(df, row, label) == row.c[ColumnOf(df, label)]

\* series.str: the accessor exists for object columns only; on a float64
\* column, also an empty one, taking it raises AttributeError
HasStrAccessor(df, label) == df.dtypes[ColumnOf(df, label)] = "object"

\* the filter without .str.lower() on the column
FilterEqCaseSensitive(df, label, key) ==
  LET Hit(row) == Cell(df, row, label) = key
  IN  [df EXCEPT !.rows = SelectSeq(df.rows, Hit)]

\* fields_df[fields_df[label].str.lower() == key]
FilterLowerEq(df, label, key) ==
  LET Hit(row) == Lower(Cell(df, row, label)) = key
  IN  [df EXCEPT !.rows = SelectSeq(df.rows, Hit)]

(* --------------------------- printed literals -------------------------- *)
T_UsageTables ==
  <<"U","s","a","g","e",":"," ","p","y","t","h","o","n"," ","e","x","t","r",
    "a","c","t","_","t","a","b","l","e","s",".","p","y"," ","<","m","e","t",
    "a","d","a","t","a","_","f","o","l","d","e","r",">">>
T_ExampleTables ==
  <<"E","x","a","m","p","l","e",":"," ","p","y","t","h","o","n"," ","e","x",
    "t","r","a","c","t","_","t","a","b","l","e","s",".","p","y"," ","'","R",
    "e","p","o","r","t","s","/","D","y","n","a","m","i","c","s"," ","3","6",
    "5"," ","S","a","l","e","s","/","M","e","t","a","d","a","t","a","'">>
T_UsageFields ==
  <<"U","s","a","g","e",":"," ","p","y","t","h","o","n"," ","e","x","t","r",
    "a","c","t","_","f","i","e","l","d","s",".","p","y"," ","<","m","e","t",
    "a","d","a","t","a","_","f","o","l","d","e","r",">">>
T_ExampleFields ==
  <<"E","x","a","m","p","l","e",":"," ","p","y","t","h","o","n"," ","e","x",
    "t","r","a","c","t","_","f","i","e","l","d","s",".","p","y"," ","'","R",
    "e","p","o","r","t","s","/","D","y","n","a","m","i","c","s"," ","3","6",
    "5"," ","S","a","l","e","s","/","M","e","t","a","d","a","t","a","'">>
T_NoExcel ==
  <<"E","r","r","o","r",":"," ","N","o"," ","E","x","c","e","l"," ","f","i",
    "l","e","s"," ","f","o","u","n","d"," ","i","n"," ">>
T_TablesTitle ==
  <<"P","o","w","e","r"," ","B","I"," ","T","a","b","l","e","s"," ","L","i",
    "s","t",":">>
T_TotalTables ==
  <<"T","o","t","a","l"," ","T","a","b","l","e","s",":"," ">>
T_FieldsTitle ==
  <<"P","O","W","E","R"," ","B","I"," ","T","A","B","L","E","S"," ","A","N",
    "D"," ","F","I","E","L","D","S">>
T_Table ==
  <<"T","A","B","L","E",":"," ">>
T_SchemaOpen ==
  <<" ","(","S","c","h","e","m","a",":"," ">>
T_Close ==
  <<")">>
T_CloseNoFields ==
  <<")"," ","-"," ","N","o"," ","f","i","e","l","d","s"," ","f","o","u","n",
    "d">>
T_FieldDisplayName ==
  <<"F","i","e","l","d"," ","D","i","s","p","l","a","y"," ","N","a","m","e">>
T_FieldSchemaName ==
  <<"F","i","e","l","d"," ","S","c","h","e","m","a"," ","N","a","m","e">>
T_TotalFields ==
  <<"T","o","t","a","l"," ","F","i","e","l","d","s",":"," ">>
T_Complete ==
  <<"E","X","T","R","A","C","T","I","O","N"," ","C","O","M","P","L","E","T",
    "E">>

(* ----------------------- cell values of the inputs --------------------- *)
V_Account == <<"A","c","c","o","u","n","t">>
V_account == <<"a","c","c","o","u","n","t">>
V_ACCOUNT == <<"A","C","C","O","U","N","T">>
V_Contact == <<"C","o","n","t","a","c","t">>
V_contact == <<"c","o","n","t","a","c","t">>
V_lead == <<"l","e","a","d">>
V_accountnumber == <<"a","c","c","o","u","n","t","n","u","m","b","e","r">>
V_AccountNumber == <<"A","c","c","o","u","n","t"," ","N","u","m","b","e","r">>
V_name == <<"n","a","m","e">>
V_AccountName == <<"A","c","c","o","u","n","t"," ","N","a","m","e">>
V_fullname == <<"f","u","l","l","n","a","m","e">>
V_Notes == <<"N","o","t","e","s">>
V_Type == <<"T","y","p","e">>
V_Title == <<"E","n","t","i","t","i","e","s">>
V_x == <<"x">>
V_MetadataFolder == <<"M","e","t","a","d","a","t","a">>

\* a value one character wider than the widest column of either report
V_Long == Rep("X", FieldsDisplayWidth + 1)

(* ------------------------------- inputs -------------------------------- *)
SeqsUpTo(S, n) == UNION {[1..k -> S] : k \in 0..n}

\* entity sheet (sheet 0), three columns wide
TitleRow == <<V_Title, NaN, NaN>>
BlankRow == <<NaN, NaN, NaN>>
EntityHeader == <<L_Entity, L_SchemaName, V_Notes>>
EntityHeaderSwapped == <<L_SchemaName, V_Notes, L_Entity>>
EntityRows ==
  { <<V_Account, V_account, V_x>>,
    <<V_Contact, V_contact, NaN>>,
    <<V_Long, V_ACCOUNT, V_x>>,
    <<NaN, V_lead, V_x>> }

\* the rows above the data: a title and a row the reader takes as its own
\* header, then the header row; or a title and the header row at once; or
\* that with a first data row that repeats the header's words
EntityTops ==
  { <<TitleRow, BlankRow, EntityHeader>>,
    <<TitleRow, BlankRow, EntityHeaderSwapped>>,
    <<TitleRow, EntityHeader>>,
    <<TitleRow, EntityHeader, EntityHeader>> }

EntitySheets ==
  {top \o data : top \in EntityTops, data \in SeqsUpTo(EntityRows, MaxRows)}
    \cup {<<>>, <<TitleRow>>}

\* Metadata sheet, four columns wide
MetadataHeader == <<L_EntityLogicalName, L_SchemaName, L_DisplayName, V_Type>>
MetadataHeaderSwapped ==
  <<L_DisplayName, V_Type, L_SchemaName, L_EntityLogicalName>>
MetadataHeaderShort == <<L_EntityLogicalName, L_SchemaName, NaN, V_Type>>
FieldRows ==
  { <<V_account, V_accountnumber, V_AccountNumber, V_x>>,
    <<V_Account, V_name, V_AccountName, NaN>>,
    <<NaN, V_name, V_name, V_x>>,
    <<V_contact, V_fullname, V_Long, V_x>> }

MetadataSheets ==
  {<<h>> \o data :
     h \in {MetadataHeader, MetadataHeaderSwapped},
     data \in SeqsUpTo(FieldRows, MaxFieldRows)}
    \cup {<<>>, <<MetadataHeaderShort, <<V_account, V_name, NaN, V_x>>>>}

\* a Metadata sheet of two fields of the account table
MetadataBasic ==
  <<MetadataHeader,
    <<V_account, V_accountnumber, V_AccountNumber, V_x>>,
    <<V_Account, V_name, V_AccountName, NaN>>>>

\* a Metadata sheet that loses a row to a blank cell
MetadataWithGap ==
  <<MetadataHeader,
    <<V_Account, V_name, V_AccountName, NaN>>,
    <<NaN, V_name, V_name, V_x>>>>

\* a workbook: its first sheet, and its sheet named Metadata when it has one
Book(entities, hasMetadata, metadata) ==
  [entities |-> entities, hasMetadata |-> hasMetadata, metadata |-> metadata]

\* entity sheets whose header row the loader finds and whose rows are all
\* kept
LoadableEntitySheets ==
  {<<TitleRow, BlankRow, EntityHeader>> \o data :
     data \in SeqsUpTo({row \in EntityRows : row[1] # NaN}, MaxRows)}

\* every entity sheet with two Metadata sheets, some without one, and every
\* Metadata sheet with the entity sheets that load
Workbooks ==
  {Book(e, TRUE, m) : e \in EntitySheets, m \in {MetadataBasic, MetadataWithGap}}
    \cup {Book(e, FALSE, <<>>) : e \in LoadableEntitySheets}
    \cup {Book(e, TRUE, m) : e \in LoadableEntitySheets, m \in MetadataSheets}

\* the two books of the folders that hold more than one workbook
BookA ==
  Book(<<TitleRow, BlankRow, EntityHeader,
         <<V_Account, V_account, V_x>>, <<V_Contact, V_contact, NaN>>>>,
       TRUE, MetadataBasic)
BookB ==
  Book(<<TitleRow, BlankRow, EntityHeader, <<V_Contact, V_contact, NaN>>>>,
       TRUE, <<MetadataHeader, <<V_contact, V_fullname, V_Long, V_x>>>>)
NoBook == Book(<<>>, FALSE, <<>>)

\* a file under the folder: depth 0 is directly inside it, depth 1 is inside
\* a subfolder of it
File(name, depth, ext, book) ==
  [name |-> name, depth |-> depth, ext |-> ext, book |-> book]

OneBook(book) == {File("a", 0, "xlsx", book)}

CliFolders ==
  { {},
    {File("notes", 0, "txt", NoBook)},
    {File("a", 1, "xlsx", BookA)},
    {File("a", 0, "xlsx", BookA), File("b", 1, "xlsx", BookB)},
    {File("a", 0, "xlsx", BookA), File("b", 0, "xlsx", BookB)} }

(* ------------------------------- state --------------------------------- *)
Runs == {1, 2}

VARIABLES
  scripts,     \* the script each run executes, run 2 after run 1
  args,        \* sys.argv[1:], the same for both runs
  folder,      \* the files under the folder the argument names
  pc,          \* where each run is in its script
  excel_file,  \* the file a run reads
  df,          \* the entity frame of a run, header promoted, before dropna
  table_list,  \* table_list / result of a run
  fields_df,   \* fields_df of an extract_fields run
  pos,         \* how many rows of table_list the report loop has taken
  out,         \* what a run wrote to standard output, one record per print
  exc,         \* the exception that ended a run, "none" otherwise
  exit         \* exit status of a run, -1 while it runs

vars == <<scripts, args, folder, pc, excel_file, df, table_list, fields_df,
          pos, out, exc, exit>>

Unset == [ok |-> FALSE, exc |-> "unset"]

\* one print call: its text, and the loop indexes it was made under
Line(kind, tidx, fidx, text) ==
  [kind |-> kind, tidx |-> tidx, fidx |-> fidx, text |-> text]

\* run r is scheduled: the runs are separate processes, one after the other
Turn(r) == IF r = 1 THEN TRUE ELSE pc[r - 1] = "exited"

InitRun ==
  /\ pc = [r \in Runs |-> "start"]
  /\ excel_file = [r \in Runs |-> File("", 0, "", NoBook)]
  /\ df = [r \in Runs |-> Unset]
  /\ table_list = [r \in Runs |-> Unset]
  /\ fields_df = [r \in Runs |-> Unset]
  /\ pos = [r \in Runs |-> 0]
  /\ out = [r \in Runs |-> <<>>]
  /\ exc = [r \in Runs |-> "none"]
  /\ exit = [r \in Runs |-> -1]

\* both reports of one workbook, which is the only file of the folder
InitReports ==
  /\ scripts = <<"extract_tables", "extract_fields">>
  /\ args = <<V_MetadataFolder>>
  /\ \E book \in Workbooks : folder = OneBook(book)

\* one script twice, with and without its argument, over the folders
InitCli ==
  /\ scripts \in {<<"extract_tables", "extract_tables">>,
                  <<"extract_fields", "extract_fields">>}
  /\ \/ args = <<>> /\ folder = {}
     \/ args = <<V_MetadataFolder>> /\ folder \in CliFolders

Init == InitRun /\ (InitReports \/ InitCli)

(* ------------------------------ actions -------------------------------- *)
Usage(script) ==
  IF script = "extract_tables"
  THEN <<Line("usage", -1, -1, T_UsageTables), Line("usage", -1, -1, T_ExampleTables)>>
  ELSE <<Line("usage", -1, -1, T_UsageFields), Line("usage", -1, -1, T_ExampleFields)>>

\* sys.exit(code)
Exit(r, code) ==
  /\ exit' = [exit EXCEPT ![r] = code]
  /\ pc' = [pc EXCEPT ![r] = "exited"]

\* an uncaught exception: traceback on standard error, exit status 1
Uncaught(r, name) ==
  /\ exc' = [exc EXCEPT ![r] = name]
  /\ Exit(r, 1)

\* lines 5-11 of both scripts
ArgCheck(r) ==
  /\ Turn(r) /\ pc[r] = "start"
  /\ IF Len(args) + 1 < 2
     THEN /\ out' = [out EXCEPT ![r] = @ \o Usage(scripts[r])]
          /\ Exit(r, 1)
     ELSE /\ pc' = [pc EXCEPT ![r] = "glob"]
          /\ UNCHANGED <<out, exit>>
  /\ UNCHANGED <<scripts, args, folder, excel_file, df, table_list,
                 fields_df, pos, exc>>

\* the files glob.glob(os.path.join(folder, '*.xlsx')) matches
Matches(dir) == {f \in dir : f.depth = 0 /\ f.ext = "xlsx"}

\* the lists glob.glob may return: the matches in the order the file system
\* lists them, which no rule fixes
GlobResults(dir) ==
  {l \in [1..Cardinality(Matches(dir)) -> Matches(dir)] :
     \A a, b \in 1..Cardinality(Matches(dir)) : a # b => l[a] # l[b]}

\* lines 13-19 of both scripts
Glob(r) ==
  /\ Turn(r) /\ pc[r] = "glob"
  /\ \E excel_files \in GlobResults(folder) :
       IF excel_files = <<>>
       THEN /\ out' = [out EXCEPT ![r] =
                         @ \o <<Line("error", -1, -1, T_NoExcel \o args[1])>>]
            /\ Exit(r, 1)
            /\ UNCHANGED excel_file
       ELSE /\ excel_file' = [excel_file EXCEPT ![r] = excel_files[1]]
            /\ pc' = [pc EXCEPT ![r] = "load"]
            /\ UNCHANGED <<out, exit>>
  /\ UNCHANGED <<scripts, args, folder, df, table_list, fields_df, pos, exc>>

\* the entity sheet as both scripts load it: read past the title row, then
\* take the first row of the frame as the column labels
\* (extract_tables lines 22-26, extract_fields lines 25-27)
EntityFrame(book) == PromoteHeader(ReadExcel(book.entities, 1))

\* frame[['Entity', 'Schema Name']].dropna()
TableList(frame) ==
  IF ~frame.ok THEN frame
  ELSE LET picked == SelectColumns(frame, <<L_Entity, L_SchemaName>>)
       IN  IF ~picked.ok THEN picked ELSE DropNa(picked)

\* pd.read_excel(excel_file, sheet_name='Metadata')
MetadataFrame(book) ==
  IF ~book.hasMetadata THEN Raise("ValueError") ELSE ReadExcel(book.metadata, 0)

\* frame[['Entity Logical Name', 'Schema Name', 'Display Name']].dropna()
FieldList(frame) ==
  IF ~frame.ok THEN frame
  ELSE LET picked == SelectColumns(frame,
                       <<L_EntityLogicalName, L_SchemaName, L_DisplayName>>)
       IN  IF ~picked.ok THEN picked ELSE DropNa(picked)

\* extract_tables lines 21-29
TablesLoad(r) ==
  /\ Turn(r) /\ pc[r] = "load" /\ scripts[r] = "extract_tables"
  /\ LET frame  == EntityFrame(excel_file[r].book)
         result == TableList(frame)
     IN  /\ df' = [df EXCEPT ![r] = frame]
         /\ table_list' = [table_list EXCEPT ![r] = result]
         /\ IF result.ok
            THEN /\ pc' = [pc EXCEPT ![r] = "report"]
                 /\ UNCHANGED <<exc, exit>>
            ELSE Uncaught(r, result.exc)
  /\ UNCHANGED <<scripts, args, folder, excel_file, fields_df, pos, out>>

\* extract_fields lines 21-31: the Metadata sheet is read first, the entity
\* sheet next, and the field columns are picked last
FieldsLoad(r) ==
  /\ Turn(r) /\ pc[r] = "load" /\ scripts[r] = "extract_fields"
  /\ LET meta   == MetadataFrame(excel_file[r].book)
         frame  == IF meta.ok THEN EntityFrame(excel_file[r].book) ELSE Unset
         tables == IF meta.ok THEN TableList(frame) ELSE Unset
         fields == IF meta.ok /\ tables.ok THEN FieldList(meta) ELSE Unset
     IN  /\ df' = [df EXCEPT ![r] = frame]
         /\ table_list' = [table_list EXCEPT ![r] = tables]
         /\ fields_df' = [fields_df EXCEPT ![r] = fields]
         /\ IF ~meta.ok THEN Uncaught(r, meta.exc)
            ELSE IF ~tables.ok THEN Uncaught(r, tables.exc)
            ELSE IF ~fields.ok THEN Uncaught(r, fields.exc)
            ELSE /\ pc' = [pc EXCEPT ![r] = "report"]
                 /\ UNCHANGED <<exc, exit>>
  /\ UNCHANGED <<scripts, args, folder, excel_file, pos, out>>

\* f"{a:<wa} {b:<wb}"
TwoColumns(a, wa, b, wb) == PadLeftAlign(a, wa) \o <<" ">> \o PadLeftAlign(b, wb)

\* extract_tables lines 31-34
TablesHeader(r) ==
  /\ Turn(r) /\ pc[r] = "report" /\ scripts[r] = "extract_tables"
  /\ out' = [out EXCEPT ![r] = @ \o
       << Line("title", -1, -1, T_TablesTitle),
          Line("rule", -1, -1, Rep("=", TablesRuleWidth)),
          Line("columns", -1, -1,
               <<NL>> \o TwoColumns(L_DisplayName, TablesDisplayWidth,
                                    L_SchemaName, TablesSchemaWidth)),
          Line("rule", -1, -1, Rep("-", TablesRuleWidth)) >>]
  /\ pc' = [pc EXCEPT ![r] = "loop"]
  /\ UNCHANGED <<scripts, args, folder, excel_file, df, table_list,
                 fields_df, pos, exc, exit>>

\* extract_tables lines 36-39, one turn of the loop
TablesRow(r) ==
  /\ Turn(r) /\ pc[r] = "loop" /\ scripts[r] = "extract_tables"
  /\ pos[r] < Len(table_list[r].rows)
  /\ LET row    == table_list[r].rows[pos[r] + 1]
         entity == Cell(table_list[r], row, L_Entity)
         schema == Cell(table_list[r], row, L_SchemaName)
     IN  out' = [out EXCEPT ![r] = @ \o
           <<Line("table", row.i, -1,
                  TwoColumns(entity, TablesDisplayWidth,
                             schema, TablesSchemaWidth))>>]
  /\ pos' = [pos EXCEPT ![r] = @ + 1]
  /\ UNCHANGED <<scripts, args, folder, pc, excel_file, df, table_list,
                 fields_df, exc, exit>>

\* extract_tables lines 41-42, then the script ends
TablesFooter(r) ==
  /\ Turn(r) /\ pc[r] = "loop" /\ scripts[r] = "extract_tables"
  /\ pos[r] = Len(table_list[r].rows)
  /\ out' = [out EXCEPT ![r] = @ \o
       << Line("rule", -1, -1, <<NL>> \o Rep("=", TablesRuleWidth)),
          Line("total_tables", -1, -1,
               T_TotalTables \o Str(Len(table_list[r].rows))) >>]
  /\ Exit(r, 0)
  /\ UNCHANGED <<scripts, args, folder, excel_file, df, table_list,
                 fields_df, pos, exc>>

\* extract_fields lines 33-35
FieldsHeader(r) ==
  /\ Turn(r) /\ pc[r] = "report" /\ scripts[r] = "extract_fields"
  /\ out' = [out EXCEPT ![r] = @ \o
       << Line("rule", -1, -1, Rep("=", FieldsRuleWidth)),
          Line("title", -1, -1, T_FieldsTitle),
          Line("rule", -1, -1, Rep("=", FieldsRuleWidth)) >>]
  /\ pc' = [pc EXCEPT ![r] = "loop"]
  /\ UNCHANGED <<scripts, args, folder, excel_file, df, table_list,
                 fields_df, pos, exc, exit>>

\* f"TABLE: {display} (Schema: {schema})" and what follows it
TableTitle(display, schema, tail) ==
  T_Table \o display \o T_SchemaOpen \o schema \o tail

\* the section with its field lines in reverse order
SectionReversed(tidx, display, schema, table_fields) ==
  LET n == Len(table_fields.rows)
  IN  << Line("section", tidx, -1, <<NL, NL>> \o Rep("=", FieldsRuleWidth)),
         Line("section_title", tidx, -1, TableTitle(display, schema, T_Close)),
         Line("section_rule", tidx, -1, Rep("=", FieldsRuleWidth)),
         Line("section_columns", tidx, -1,
              TwoColumns(T_FieldDisplayName, FieldsDisplayWidth,
                         T_FieldSchemaName, FieldsSchemaWidth)),
         Line("section_rule", tidx, -1, Rep("-", FieldsRuleWidth)) >>
      \o [k \in 1..n |->
            Line("field", tidx, table_fields.rows[n + 1 - k].i,
                 TwoColumns(Cell(table_fields, table_fields.rows[n + 1 - k],
                                 L_DisplayName),
                            FieldsDisplayWidth,
                            Cell(table_fields, table_fields.rows[n + 1 - k],
                                 L_SchemaName),
                            FieldsSchemaWidth))]
      \o << Line("total_fields", tidx, -1,
                 <<NL>> \o T_TotalFields \o Str(n)) >>

\* extract_fields lines 46-57: the section of a table that has fields
Section(tidx, display, schema, table_fields) ==
  << Line("section", tidx, -1, <<NL, NL>> \o Rep("=", FieldsRuleWidth)),
     Line("section_title", tidx, -1, TableTitle(display, schema, T_Close)),
     Line("section_rule", tidx, -1, Rep("=", FieldsRuleWidth)),
     Line("section_columns", tidx, -1,
          TwoColumns(T_FieldDisplayName, FieldsDisplayWidth,
                     T_FieldSchemaName, FieldsSchemaWidth)),
     Line("section_rule", tidx, -1, Rep("-", FieldsRuleWidth)) >>
  \o [k \in 1..Len(table_fields.rows) |->
        Line("field", tidx, table_fields.rows[k].i,
             TwoColumns(Cell(table_fields, table_fields.rows[k], L_DisplayName),
                        FieldsDisplayWidth,
                        Cell(table_fields, table_fields.rows[k], L_SchemaName),
                        FieldsSchemaWidth))]
  \o << Line("total_fields", tidx, -1,
             <<NL>> \o T_TotalFields \o Str(Len(table_fields.rows))) >>

\* extract_fields lines 38-59, one turn of the outer loop
FieldsTable(r) ==
  /\ Turn(r) /\ pc[r] = "loop" /\ scripts[r] = "extract_fields"
  /\ pos[r] < Len(table_list[r].rows)
  /\ LET row     == table_list[r].rows[pos[r] + 1]
         display == Cell(table_list[r], row, L_Entity)
         schema  == Cell(table_list[r], row, L_SchemaName)
     IN  IF ~HasStrAccessor(fields_df[r], L_EntityLogicalName)
         THEN /\ Uncaught(r, "AttributeError")
              /\ UNCHANGED <<out, pos>>
         ELSE LET table_fields ==
                    FilterLowerEq(fields_df[r], L_EntityLogicalName, Lower(schema))
              IN  /\ out' = [out EXCEPT ![r] = @ \o
                       IF Len(table_fields.rows) > 0
                       THEN Section(row.i, display, schema, table_fields)
                       ELSE <<Line("no_fields", row.i, -1,
                                   <<NL, NL>> \o TableTitle(display, schema,
                                                            T_CloseNoFields))>>]
                  /\ pos' = [pos EXCEPT ![r] = @ + 1]
                  /\ UNCHANGED <<pc, exc, exit>>
  /\ UNCHANGED <<scripts, args, folder, excel_file, df, table_list, fields_df>>

\* extract_fields lines 61-63, then the script ends
FieldsFooter(r) ==
  /\ Turn(r) /\ pc[r] = "loop" /\ scripts[r] = "extract_fields"
  /\ pos[r] = Len(table_list[r].rows)
  /\ out' = [out EXCEPT ![r] = @ \o
       << Line("rule", -1, -1, <<NL, NL>> \o Rep("=", FieldsRuleWidth)),
          Line("complete", -1, -1, T_Complete),
          Line("rule", -1, -1, Rep("=", FieldsRuleWidth)) >>]
  /\ Exit(r, 0)
  /\ UNCHANGED <<scripts, args, folder, excel_file, df, table_list,
                 fields_df, pos, exc>>

Next ==
  \E r \in Runs :
    \/ ArgCheck(r)
    \/ Glob(r)
    \/ TablesLoad(r)
    \/ TablesHeader(r)
    \/ TablesRow(r)
    \/ TablesFooter(r)
    \/ FieldsLoad(r)
    \/ FieldsHeader(r)
    \/ FieldsTable(r)
    \/ FieldsFooter(r)

Spec == Init /\ [][Next]_vars

(* ======================== properties of the runs ======================= *)
FieldsRuns == {r \in Runs : scripts[r] = "extract_fields"}
TablesRuns == {r \in Runs : scripts[r] = "extract_tables"}

EntitySheetOf(r) == excel_file[r].book.entities
MetadataSheetOf(r) == excel_file[r].book.metadata

\* run r got through its load stage
Loaded(r) ==
  /\ pc[r] \in {"report", "loop", "exited"}
  /\ table_list[r].ok
  /\ scripts[r] = "extract_fields" => fields_df[r].ok

\* the tables a run has dealt with: all of them once it has ended
Scope(r) ==
  IF pc[r] = "exited" THEN 1..Len(table_list[r].rows) ELSE 1..pos[r]

PosIn(row, label) == CHOOSE j \in 1..Len(row) : row[j] = label

IsPrefix(a, b) == Len(a) <= Len(b) /\ SubSeq(b, 1, Len(a)) = a

\* the lines run r printed under table index tidx
LinesOf(r, tidx) ==
  LET Mine(l) == l.tidx = tidx IN SelectSeq(out[r], Mine)

\* positions in fields_df of the fields whose owner equals the schema name
\* of table row T once both are lowercased
MatchesOf(r, T) ==
  {q \in 1..Len(fields_df[r].rows) :
     Lower(fields_df[r].rows[q].c[1]) = Lower(T.c[2])}

\* table_list against the raw entity sheet: the rows below the promoted
\* header with both cells present, in sheet order
C7_TablesExact(r) ==
  LET sheet == EntitySheetOf(r)
      e     == PosIn(sheet[3], L_Entity)
      n     == PosIn(sheet[3], L_SchemaName)
      Kept  == {k \in 4..Len(sheet) : sheet[k][e] # NaN /\ sheet[k][n] # NaN}
      rows  == table_list[r].rows
  IN  /\ Len(rows) = Cardinality(Kept)
      /\ \A j \in 1..Len(rows) :
           LET k == rows[j].i + 4
           IN  /\ k \in Kept
               /\ Cardinality({m \in Kept : m <= k}) = j
               /\ rows[j].c = <<sheet[k][e], sheet[k][n]>>

\* fields_df against the raw Metadata sheet: the rows below the header with
\* the three cells present, in sheet order
C7_FieldsExact(r) ==
  LET sheet == MetadataSheetOf(r)
      o     == PosIn(sheet[1], L_EntityLogicalName)
      n     == PosIn(sheet[1], L_SchemaName)
      d     == PosIn(sheet[1], L_DisplayName)
      Kept  == {k \in 2..Len(sheet) :
                  sheet[k][o] # NaN /\ sheet[k][n] # NaN /\ sheet[k][d] # NaN}
      rows  == fields_df[r].rows
  IN  /\ Len(rows) = Cardinality(Kept)
      /\ \A j \in 1..Len(rows) :
           LET k == rows[j].i + 2
           IN  /\ k \in Kept
               /\ Cardinality({m \in Kept : m <= k}) = j
               /\ rows[j].c = <<sheet[k][o], sheet[k][n], sheet[k][d]>>

C2_PrintedIffLowerEqual ==
  \A r \in FieldsRuns :
    Loaded(r) =>
      \A p \in Scope(r) : \A q \in 1..Len(fields_df[r].rows) :
        LET T == table_list[r].rows[p]
            F == fields_df[r].rows[q]
            printed == \E n \in 1..Len(out[r]) :
                         /\ out[r][n].kind = "field"
                         /\ out[r][n].tidx = T.i
                         /\ out[r][n].fidx = F.i
                         /\ IsPrefix(F.c[3], out[r][n].text)
        IN  printed <=> Lower(F.c[1]) = Lower(T.c[2])

\* a finished report in which two table rows share a schema name and both
\* list a field whose owner is spelled in another case than the schema name
C2_Witness ==
  \E r \in FieldsRuns :
    /\ Loaded(r) /\ pc[r] = "exited" /\ exit[r] = 0
    /\ \E p1, p2 \in 1..Len(table_list[r].rows) :
         \E q \in 1..Len(fields_df[r].rows) :
           LET T1 == table_list[r].rows[p1]
               T2 == table_list[r].rows[p2]
               F  == fields_df[r].rows[q]
           IN  /\ p1 # p2 /\ T1.c[2] = T2.c[2]
               /\ F.c[1] # T1.c[2]
               /\ \E n \in 1..Len(out[r]) :
                    /\ out[r][n].kind = "field"
                    /\ out[r][n].tidx = T1.i /\ out[r][n].fidx = F.i
               /\ \E n \in 1..Len(out[r]) :
                    /\ out[r][n].kind = "field"
                    /\ out[r][n].tidx = T2.i /\ out[r][n].fidx = F.i

\* the lines printed under table row T: header, one line per match in
\* sheet order, total
C4_SectionOf(r, T) ==
  LET M   == MatchesOf(r, T)
      n   == Cardinality(M)
      sec == LinesOf(r, T.i)
  IN  /\ Len(sec) = n + 6
      /\ sec[1].kind = "section"
      /\ sec[2].kind = "section_title"
      /\ sec[2].text = T_Table \o T.c[1] \o T_SchemaOpen \o T.c[2] \o T_Close
      /\ sec[3].kind = "section_rule"
      /\ sec[4].kind = "section_columns"
      /\ sec[5].kind = "section_rule"
      /\ \A j \in 1..n :
           /\ sec[5 + j].kind = "field"
           /\ \E q \in M :
                /\ Cardinality({m \in M : m <= q}) = j
                /\ sec[5 + j].fidx = fields_df[r].rows[q].i
                /\ IsPrefix(fields_df[r].rows[q].c[3], sec[5 + j].text)
           /\ j > 1 => sec[5 + j].fidx > sec[4 + j].fidx
      /\ sec[n + 6].kind = "total_fields"
      /\ sec[n + 6].text = <<NL>> \o T_TotalFields \o Str(n)

(* C4: in extract_fields a table with at least one matching field gets a    *)
(* section header that names its display name and schema name, then one     *)
(* line per matching field in the order of the Metadata sheet, none left    *)
(* out, repeated or moved, then a "Total Fields: n" line with n the number  *)
(* of field lines of the section.                                           *)
C4_SectionListsFieldsInOrder ==
  \A r \in FieldsRuns :
    Loaded(r) =>
      \A p \in Scope(r) :
        MatchesOf(r, table_list[r].rows[p]) # {} =>
          C4_SectionOf(r, table_list[r].rows[p])

\* a finished report with a section of two or more fields
C4_Witness ==
  \E r \in FieldsRuns :
    /\ Loaded(r) /\ pc[r] = "exited" /\ exit[r] = 0
    /\ \E p \in 1..Len(table_list[r].rows) :
         /\ Cardinality(MatchesOf(r, table_list[r].rows[p])) >= 2
         /\ \E n \in 1..Len(out[r]) :
              /\ out[r][n].kind = "total_fields"
              /\ out[r][n].tidx = table_list[r].rows[p].i

\* physical row 0 is the title and physical row 1 the header row
C1_HeaderInRowOne(sheet) ==
  /\ Len(sheet) >= 2
  /\ sheet[1] = TitleRow
  /\ \E j \in 1..Len(sheet[2]) : sheet[2][j] = L_Entity
  /\ \E j \in 1..Len(sheet[2]) : sheet[2][j] = L_SchemaName

\* run r has executed the lines that load the entity sheet
C1_EntitySheetRead(r) ==
  /\ pc[r] \in {"report", "loop", "exited"}
  /\ excel_file[r].ext = "xlsx"
  /\ r \in FieldsRuns => excel_file[r].book.hasMetadata

(* C1: for an entity sheet whose physical row 0 is a title, whose physical  *)
(* row 1 is the header row with "Entity" and "Schema Name" and whose other  *)
(* rows are data, the loader of both scripts yields rowcount - 2 candidate  *)
(* rows before dropna, one per data row in sheet order, the first data row  *)
(* (physical row 2) among them and not consumed as a header.                *)
C1_RowOneHeaderGivesAllDataRows ==
  \A r \in Runs :
    (C1_EntitySheetRead(r) /\ C1_HeaderInRowOne(EntitySheetOf(r))) =>
      /\ df[r].ok
      /\ df[r].columns = EntitySheetOf(r)[2]
      /\ Len(df[r].rows) = Len(EntitySheetOf(r)) - 2
      /\ \A k \in 1..Len(df[r].rows) : df[r].rows[k].c = EntitySheetOf(r)[k + 2]

(* C3: in extract_fields a table with no matching field produces exactly    *)
(* one output line for that table, the "TABLE: <display> (Schema: <schema>) *)
(* - No fields found" line, and no section header, field line or "Total     *)
(* Fields" line.                                                            *)
C3_NoFieldsLineOnly ==
  \A r \in FieldsRuns :
    Loaded(r) =>
      \A p \in Scope(r) :
        LET T == table_list[r].rows[p]
        IN  MatchesOf(r, T) = {} =>
              /\ Len(LinesOf(r, T.i)) = 1
              /\ LinesOf(r, T.i)[1].kind = "no_fields"
              /\ LinesOf(r, T.i)[1].text =
                   <<NL, NL>> \o T_Table \o T.c[1] \o T_SchemaOpen \o T.c[2]
                     \o T_CloseNoFields

(* C5: both scripts exit with status 1, having printed only a usage or      *)
(* error message and read no workbook, when the folder argument is missing  *)
(* or the folder holds no .xlsx file directly inside it; the argument is    *)
(* checked before the folder is searched; every other run that loads        *)
(* successfully exits with status 0.                                        *)
C5_ExitStatus ==
  \A r \in Runs :
    pc[r] = "exited" =>
      IF args = <<>>
      THEN /\ exit[r] = 1
           /\ \A n \in 1..Len(out[r]) : out[r][n].kind = "usage"
           /\ excel_file[r].ext # "xlsx" /\ df[r] = Unset
      ELSE IF \A f \in folder : f.depth # 0 \/ f.ext # "xlsx"
      THEN /\ exit[r] = 1
           /\ \A n \in 1..Len(out[r]) : out[r][n].kind = "error"
           /\ excel_file[r].ext # "xlsx" /\ df[r] = Unset
      ELSE Loaded(r) => exit[r] = 0

(* C6: running either script twice with the same argument on an unchanged   *)
(* folder gives byte-identical output, also when the folder holds more      *)
(* than one .xlsx file.                                                     *)
C6_SameOutputTwice ==
  (pc[1] = "exited" /\ pc[2] = "exited" /\ scripts[1] = scripts[2]) =>
    out[1] = out[2] /\ exit[1] = exit[2]

(* C8: every listing line has a fixed layout whatever the length of its     *)
(* values: a field line of extract_fields is a 50-character column, a space *)
(* and a 45-character column, a table line of extract_tables a 35-character *)
(* column, a space and a 40-character column.                               *)
C8_FixedLineLayout ==
  \A r \in Runs : \A n \in 1..Len(out[r]) :
    /\ out[r][n].kind = "field" =>
         Len(out[r][n].text) = FieldsDisplayWidth + 1 + FieldsSchemaWidth
    /\ out[r][n].kind = "table" =>
         Len(out[r][n].text) = TablesDisplayWidth + 1 + TablesSchemaWidth

\* the tables reported are the rows of table_list, once each, in order
C9_TableOrder(r) ==
  LET Starts(l) == l.kind \in {"section_title", "no_fields"}
      heads     == SelectSeq(out[r], Starts)
  IN  /\ Len(heads) = Len(table_list[r].rows)
      /\ \A p \in 1..Len(heads) : heads[p].tidx = table_list[r].rows[p].i

(* C9: once loading has succeeded extract_fields runs to completion: it     *)
(* raises no error in the join and report stage, deals with each table once *)
(* in the order of the entity sheet, and prints "EXTRACTION COMPLETE" once, *)
(* after the output of the last table, as the end of its output.            *)
C9_RunsToCompletion ==
  \A r \in FieldsRuns :
    Loaded(r) =>
      /\ exc[r] = "none"
      /\ pc[r] = "exited" =>
           /\ exit[r] = 0
           /\ C9_TableOrder(r)
           /\ Cardinality({n \in 1..Len(out[r]) : out[r][n].kind = "complete"}) = 1
           /\ out[r][Len(out[r]) - 1].kind = "complete"
           /\ out[r][Len(out[r])].kind = "rule"

(* C10: for one workbook the tables extract_tables lists are, in the same   *)
(* order and as many times, the tables extract_fields reports with a        *)
(* section or a "No fields found" line, and "Total Tables" is the number of *)
(* both.                                                                    *)
C10_SameTablesInBothReports ==
  (/\ scripts = <<"extract_tables", "extract_fields">>
   /\ pc[1] = "exited" /\ pc[2] = "exited"
   /\ Loaded(1) /\ Loaded(2)) =>
    LET Listed(l)   == l.kind = "table"
        Reported(l) == l.kind \in {"section_title", "no_fields"}
        listed      == SelectSeq(out[1], Listed)
        reported    == SelectSeq(out[2], Reported)
    IN  /\ table_list[1].rows = table_list[2].rows
        /\ Len(listed) = Len(table_list[1].rows)
        /\ Len(reported) = Len(listed)
        /\ \A p \in 1..Len(listed) : reported[p].tidx = listed[p].tidx
        /\ out[1][Len(out[1])].text = T_TotalTables \o Str(Len(listed))

====
